---- MODULE Spec2Model ----
(***************************************************************************)
(* A model of package lengths (bodygram/lengths): the Length type (a       *)
(* uint64 nanometer count), its unit constants, the float64 accessors, the *)
(* float64 constructors, FeetAndInches and String, in both variants of the *)
(* package (lengths.go, with the Kilometer unit, and the older variant     *)
(* that stops at Meter).                                                   *)
(*                                                                         *)
(* TLC's integers are 32 bits wide, so a uint64 and the 53-bit significand *)
(* of a float64 are held as natural numbers of arbitrary size: sequences   *)
(* of digits in base 2^15, least significant digit first, without leading  *)
(* zero digits (zero is the empty sequence).  A float64 is a record        *)
(* [m, e] of value m * 2^e whose significand m has exactly 53 bits (zero   *)
(* is [m |-> <<>>, e |-> 0]); every float64 operation computes the exact   *)
(* result and rounds it to the nearest float64, ties to even, as IEEE 754  *)
(* and Go prescribe.  Only non-negative, normal, finite values occur.      *)
(***************************************************************************)
EXTENDS Integers, Sequences, FiniteSets, TLC

(***************************************************************************)
(* Natural numbers of arbitrary size.                                      *)
(***************************************************************************)
Base == 2^15

RECURSIVE Strip(_)
Strip(a) ==
  IF a = <<>> THEN <<>>
  ELSE IF a[Len(a)] = 0 THEN Strip(SubSeq(a, 1, Len(a) - 1)) ELSE a

RECURSIVE Big(_)
Big(n) == IF n = 0 THEN <<>> ELSE <<n % Base>> \o Big(n \div Base)

Rest(a) == IF a = <<>> THEN <<>> ELSE Tail(a)
Low(a) == IF a = <<>> THEN 0 ELSE a[1]

RECURSIVE AddC(_, _, _)
AddC(a, b, c) ==
  IF a = <<>> /\ b = <<>> THEN (IF c = 0 THEN <<>> ELSE <<c>>)
  ELSE LET x == Low(a) + Low(b) + c
       IN  <<x % Base>> \o AddC(Rest(a), Rest(b), x \div Base)

Add(a, b) == AddC(a, b, 0)

RECURSIVE SubB(_, _, _)
SubB(a, b, c) ==
  IF a = <<>> THEN <<>>
  ELSE LET x == Low(a) - Low(b) - c
       IN  IF x < 0 THEN <<x + Base>> \o SubB(Rest(a), Rest(b), 1)
           ELSE <<x>> \o SubB(Rest(a), Rest(b), 0)

\* a - b, for a >= b
Sub(a, b) == Strip(SubB(a, b, 0))

RECURSIVE CmpTop(_, _, _)
CmpTop(a, b, i) ==
  IF i = 0 THEN 0
  ELSE IF a[i] < b[i] THEN -1
  ELSE IF a[i] > b[i] THEN 1
  ELSE CmpTop(a, b, i - 1)

\* -1, 0 or 1 as a < b, a = b or a > b
Cmp(a, b) ==
  IF Len(a) < Len(b) THEN -1
  ELSE IF Len(a) > Len(b) THEN 1
  ELSE CmpTop(a, b, Len(a))

Lt(a, b) == Cmp(a, b) < 0
Le(a, b) == Cmp(a, b) <= 0

RECURSIVE MulSmallC(_, _, _)
MulSmallC(a, s, c) ==
  IF a = <<>> THEN Big(c)
  ELSE LET x == a[1] * s + c
       IN  <<x % Base>> \o MulSmallC(Tail(a), s, x \div Base)

\* a * s, for 0 <= s <= Base
MulSmall(a, s) == IF s = 0 THEN <<>> ELSE MulSmallC(a, s, 0)

RECURSIVE Mul(_, _)
Mul(a, b) ==
  IF a = <<>> \/ b = <<>> THEN <<>>
  ELSE LET hi == Mul(a, Tail(b))
       IN  Add(MulSmall(a, b[1]), IF hi = <<>> THEN <<>> ELSE <<0>> \o hi)

RECURSIVE DivSmallTop(_, _, _, _, _)
DivSmallTop(a, s, i, q, r) ==
  IF i = 0 THEN [q |-> Strip(q), r |-> r]
  ELSE LET x == r * Base + a[i]
       IN  DivSmallTop(a, s, i - 1, <<x \div s>> \o q, x % s)

\* [q, r]: the quotient and the remainder (an integer) of a by s, 0 < s <= Base
DivSmall(a, s) == DivSmallTop(a, s, Len(a), <<>>, 0)

Zeros(n) == [i \in 1..n |-> 0]

\* a * 2^k
ShiftL(a, k) ==
  IF a = <<>> THEN <<>>
  ELSE Zeros(k \div 15) \o MulSmall(a, 2^(k % 15))

\* a div 2^k
ShiftR(a, k) ==
  IF Len(a) <= k \div 15 THEN <<>>
  ELSE DivSmall(SubSeq(a, (k \div 15) + 1, Len(a)), 2^(k % 15)).q

\* a mod 2^k
LowBits(a, k) == Sub(a, ShiftL(ShiftR(a, k), k))

RECURSIVE BitLenSmall(_)
BitLenSmall(n) == IF n = 0 THEN 0 ELSE 1 + BitLenSmall(n \div 2)

\* the number of bits of a (0 for zero)
BitLen(a) == IF a = <<>> THEN 0 ELSE 15 * (Len(a) - 1) + BitLenSmall(a[Len(a)])

Bit(a, i) ==
  IF Len(a) <= i \div 15 THEN 0 ELSE (a[(i \div 15) + 1] \div 2^(i % 15)) % 2

IsOdd(a) == Low(a) % 2 = 1

\* the largest d < 2^(bit+1) + d0 with d * b <= r, given d0 * b <= r (d0 a multiple of 2^(bit+1))
RECURSIVE QuoDigit(_, _, _, _)
QuoDigit(r, b, bit, d0) ==
  IF bit < 0 THEN d0
  ELSE LET t == d0 + 2^bit
       IN  IF Le(MulSmall(b, t), r) THEN QuoDigit(r, b, bit - 1, t)
           ELSE QuoDigit(r, b, bit - 1, d0)

\* long division in base 2^15, from the most significant digit a[i] down
RECURSIVE DivModTop(_, _, _, _, _)
DivModTop(a, b, i, q, r) ==
  IF i = 0 THEN [q |-> Strip(q), r |-> r]
  ELSE LET r2 == Strip(<<a[i]>> \o r)
           d  == QuoDigit(r2, b, 14, 0)
           r3 == Sub(r2, MulSmall(b, d))
       IN  \* the test only makes r3 a value before the next step
           IF Len(r3) >= 0 THEN DivModTop(a, b, i - 1, <<d>> \o q, r3)
           ELSE [q |-> q, r |-> r3]

\* [q, r]: a div b and a mod b, for b > 0
DivMod(a, b) == DivModTop(a, b, Len(a), <<>>, <<>>)

Div(a, b) == DivMod(a, b).q
Mod(a, b) == DivMod(a, b).r

RECURSIVE Pow10(_)
Pow10(n) == IF n = 0 THEN <<1>> ELSE MulSmall(Pow10(n - 1), 10)

Pow2(n) == ShiftL(<<1>>, n)

\* the number written in decimal as the groups of four digits c, most significant first
RECURSIVE DecFrom(_, _)
DecFrom(c, acc) ==
  IF c = <<>> THEN acc
  ELSE DecFrom(Tail(c), Add(MulSmall(acc, 10000), Big(c[1])))

Dec(c) == DecFrom(c, <<>>)

\* the decimal digits of a, most significant first (none for zero)
RECURSIVE Digits(_)
Digits(a) ==
  IF a = <<>> THEN <<>>
  ELSE LET d == DivSmall(a, 10) IN Append(Digits(d.q), d.r)

RECURSIVE DigitString(_)
DigitString(ds) == IF ds = <<>> THEN "" ELSE ToString(ds[1]) \o DigitString(Tail(ds))

(***************************************************************************)
(* float64: [m, e] is m * 2^e, m of exactly 53 bits, or zero.              *)
(***************************************************************************)
FZero == [m |-> <<>>, e |-> 0]

\* The float64 nearest to n * 2^e, ties to even.  With sticky, the number
\* rounded is a little more than n * 2^e (less than one unit of n more), and
\* n has at least 54 bits.
RoundFloat(n, e, sticky) ==
  IF n = <<>> THEN FZero
  ELSE LET len == BitLen(n)
       IN  IF len <= 53 THEN [m |-> ShiftL(n, 53 - len), e |-> e - (53 - len)]
           ELSE LET k   == len - 53
                    q   == ShiftR(n, k)
                    c   == Cmp(LowBits(n, k), Pow2(k - 1))
                    up  == c > 0 \/ (c = 0 /\ (sticky \/ IsOdd(q)))
                    q2  == IF up THEN Add(q, <<1>>) ELSE q
                IN  IF BitLen(q2) = 54 THEN [m |-> ShiftR(q2, 1), e |-> e + k + 1]
                    ELSE [m |-> q2, e |-> e + k]

\* the conversion float64(n) of an unsigned integer
Float64(n) == RoundFloat(n, 0, FALSE)

\* the float64 nearest to the quotient a / b of two natural numbers, b > 0:
\* what a decimal literal such as 1e-9 (a = 1, b = 10^9) denotes
RatioFloat(a, b) ==
  IF a = <<>> THEN FZero
  ELSE LET d0 == 55 + BitLen(b) - BitLen(a)
           s  == IF d0 > 0 THEN d0 ELSE 0
           d  == DivMod(ShiftL(a, s), b)
       IN  RoundFloat(d.q, 0 - s, d.r # <<>>)

\* x + y
FAdd(x, y) ==
  IF x.m = <<>> THEN y
  ELSE IF y.m = <<>> THEN x
  ELSE LET e0 == IF x.e < y.e THEN x.e ELSE y.e
       IN  RoundFloat(Add(ShiftL(x.m, x.e - e0), ShiftL(y.m, y.e - e0)), e0, FALSE)

\* x * y
FMul(x, y) == RoundFloat(Mul(x.m, y.m), x.e + y.e, FALSE)

\* x / y, y # 0
FQuo(x, y) ==
  IF x.m = <<>> THEN FZero
  ELSE LET d == DivMod(ShiftL(x.m, 55), y.m)
       IN  RoundFloat(d.q, x.e - 55 - y.e, d.r # <<>>)

\* x rounded to the nearest integer (halves go up): what a conversion that
\* rounded would return
Nearest(x) ==
  IF x.e >= 0 THEN ShiftL(x.m, x.e)
  ELSE ShiftR(Add(x.m, Pow2(0 - x.e - 1)), 0 - x.e)

\* the integer part of x: the fraction is discarded
Trunc(x) == IF x.e >= 0 THEN ShiftL(x.m, x.e) ELSE ShiftR(x.m, 0 - x.e)

(***************************************************************************)
(* strconv.FormatFloat(f, 'f', -1, 64): the decimal with the fewest digits *)
(* that lies in the rounding interval of f (the numbers whose nearest      *)
(* float64 is f; its ends belong to it when the significand is even), the  *)
(* closest to f when there are two; no exponent.  For 0 <= f < 2^53.       *)
(* The result is [int, frac]: the decimal digits before and after the      *)
(* point.                                                                  *)
(***************************************************************************)
\* the digits ds padded with zeros on the left to n digits
RECURSIVE PadLeft(_, _)
PadLeft(ds, n) == IF Len(ds) >= n THEN ds ELSE PadLeft(<<0>> \o ds, n)

\* the decimal d / 10^j as [int, frac]
Decimal(d, j) ==
  LET qr == DivMod(d, Pow10(j))
      i  == Digits(qr.q)
  IN  [int |-> IF i = <<>> THEN <<0>> ELSE i, frac |-> PadLeft(Digits(qr.r), j)]

\* whether lo / 10^j and (lo + 1) / 10^j lie in the rounding interval of
\* f = m / 2^k, where f * 10^j = lo + rem / 2^k = lo + 1 - up / 2^k and t = 10^j
Within(m, j, t, lo, rem, up) ==
  LET closed == ~IsOdd(m)
      \* below a power of two the float64s are twice as dense
      below  == IF m = Pow2(52) THEN 4 ELSE 2
      cLo    == Cmp(MulSmall(rem, below), t)
      cHi    == Cmp(MulSmall(up, 2), t)
  IN  [j |-> j, lo |-> lo, rem |-> rem, up |-> up,
       loIn |-> rem = <<>> \/ cLo < 0 \/ (cLo = 0 /\ closed),
       hiIn |-> rem # <<>> /\ (cHi < 0 \/ (cHi = 0 /\ closed))]

\* p = m * t = m * 10^j split at the binary point
Split(m, k, j, t, p) ==
  Within(m, j, t, ShiftR(p, k), LowBits(p, k), Sub(Pow2(k), LowBits(p, k)))

\* f = m / 2^k scaled by 10^j
Scaled(m, k, j) == Split(m, k, j, Pow10(j), Mul(m, Pow10(j)))

\* the scaling by 10^j for the least j in a..b with a decimal of j digits
\* after the point in the interval, given that b is one (if j is one, so is
\* j + 1)
RECURSIVE FewestDigits(_, _, _, _)
RECURSIVE Narrow(_, _, _, _, _)
FewestDigits(m, k, a, b) ==
  IF a >= b THEN Scaled(m, k, b)
  ELSE Narrow(m, k, a, b, Scaled(m, k, (a + b) \div 2))

\* sc, the scaling by the middle of a..b, decides which half holds the least j
Narrow(m, k, a, b, sc) ==
  IF sc.loIn \/ sc.hiIn THEN FewestDigits(m, k, a, sc.j)
  ELSE FewestDigits(m, k, sc.j + 1, b)

\* 17 significant digits always do: a bound on the digits after the point
EnoughDigits(k) ==
  LET j == IF k <= 52 THEN 17 ELSE 18 + ((k - 52) * 302) \div 1000
  IN  IF j < k THEN j ELSE k

\* of the decimals lo / 10^j and (lo + 1) / 10^j in the interval, the closest
\* to f (the even one of two as close)
Closest(sc) ==
  LET c == Cmp(sc.rem, sc.up)
  IN  Decimal(IF ~sc.hiIn \/ (sc.loIn /\ (c < 0 \/ (c = 0 /\ ~IsOdd(sc.lo))))
                THEN sc.lo ELSE Add(sc.lo, <<1>>),
              sc.j)

\* the shortest decimal of f = m / 2^k
Shortest(m, k) == Closest(FewestDigits(m, k, 0, EnoughDigits(k)))

FormatFloat(f) ==
  IF f.m = <<>> THEN [int |-> <<0>>, frac |-> <<>>]
  ELSE IF f.e >= 0 THEN [int |-> Digits(ShiftL(f.m, f.e)), frac |-> <<>>]
  ELSE Shortest(f.m, 0 - f.e)

\* the text of a decimal [int, frac]
Text(d) ==
  DigitString(d.int) \o (IF d.frac = <<>> THEN "" ELSE "." \o DigitString(d.frac))

(***************************************************************************)
(* Length and the unit constants.                                          *)
(***************************************************************************)
\* type Length uint64: arithmetic wraps modulo 2^64
Wrap64(x) == LowBits(x, 64)

Nanometer  == Dec(<<1>>)
Micrometer == Mul(Dec(<<1000>>), Nanometer)
Millimeter == Mul(Dec(<<100, 0000>>), Nanometer)
Centimeter == Mul(Dec(<<1000, 0000>>), Nanometer)
Meter      == Mul(Dec(<<10, 0000, 0000>>), Nanometer)
Kilometer  == Mul(Dec(<<1, 0000, 0000, 0000>>), Nanometer)
Inch       == Mul(Dec(<<2540, 0000>>), Nanometer)
Foot       == Mul(Dec(<<3, 0480, 0000>>), Nanometer)

UnitNames ==
  {"Nanometer", "Micrometer", "Millimeter", "Centimeter", "Meter", "Kilometer",
   "Inch", "Foot"}

Unit(name) ==
  CASE name = "Nanometer"  -> Nanometer
    [] name = "Micrometer" -> Micrometer
    [] name = "Millimeter" -> Millimeter
    [] name = "Centimeter" -> Centimeter
    [] name = "Meter"      -> Meter
    [] name = "Kilometer"  -> Kilometer
    [] name = "Inch"       -> Inch
    [] name = "Foot"       -> Foot

\* the quotient rounded up: what a division that did not discard the
\* remainder would return
QuoUp(l, k) == Div(Add(l, Sub(k, <<1>>)), k)

\* count * unit, l / unit and l % unit on Length
Times(n, k) == Wrap64(Mul(n, k))
Quo(l, k) == Div(l, k)
Rem(l, k) == Mod(l, k)

(***************************************************************************)
(* The accessors: the length as a float64 number of units.                 *)
(***************************************************************************)
Length_Micrometers(l) ==
  FAdd(Float64(Quo(l, Micrometer)), FQuo(Float64(Rem(l, Micrometer)), Float64(Dec(<<1000>>))))

Length_Millimeters(l) ==
  FAdd(Float64(Quo(l, Millimeter)), FQuo(Float64(Rem(l, Millimeter)), Float64(Dec(<<100, 0000>>))))

\* Centimeters with the remainder divided by the divisor of Millimeters
Centimeters_MillimeterDivisor(l) ==
  FAdd(Float64(Quo(l, Centimeter)), FQuo(Float64(Rem(l, Centimeter)), Float64(Dec(<<100, 0000>>))))

Length_Centimeters(l) ==
  FAdd(Float64(Quo(l, Centimeter)), FQuo(Float64(Rem(l, Centimeter)), Float64(Dec(<<1000, 0000>>))))

Length_Meters(l) ==
  FAdd(Float64(Quo(l, Meter)), FQuo(Float64(Rem(l, Meter)), Float64(Dec(<<10, 0000, 0000>>))))

\* Kilometers without the remainder term: the whole kilometers only
Kilometers_WholeOnly(l) == Float64(Quo(l, Kilometer))

Length_Kilometers(l) ==
  FAdd(Float64(Quo(l, Kilometer)),
       FQuo(Float64(Rem(l, Kilometer)), Float64(Dec(<<1, 0000, 0000, 0000>>))))

Length_Inches(l) ==
  FAdd(Float64(Quo(l, Inch)), FQuo(Float64(Rem(l, Inch)), Float64(Dec(<<2540, 0000>>))))

\* FeetAndInches with the inches of the whole length, not of l % Foot
FeetAndInches_AllInches(l) == <<Float64(Quo(l, Foot)), Length_Inches(l)>>

Length_FeetAndInches(l) ==
  LET feet   == Quo(l, Foot)
      inches == Rem(l, Foot)
  IN  <<Float64(feet), Length_Inches(inches)>>

(***************************************************************************)
(* The constructors: Length(f * float64(unit)).  The conversion discards   *)
(* the fraction of the float64 product; of a product of 2^64 or more the   *)
(* Go specification says only that the result is implementation-dependent  *)
(* (amd64 yields 2^63, arm64 the largest uint64), so a constructor is the  *)
(* set of the values it may return.                                        *)
(***************************************************************************)
TwoTo64 == Pow2(64)
MaxUint64 == Sub(TwoTo64, <<1>>)

InRange(x) == Lt(Trunc(x), TwoTo64)

ToLength(x) ==
  IF InRange(x) THEN {Trunc(x)} ELSE {<<>>, Pow2(63), MaxUint64}

Millimeters(f) == ToLength(FMul(f, Float64(Millimeter)))
Centimeters(f) == ToLength(FMul(f, Float64(Centimeter)))
Meters(f)      == ToLength(FMul(f, Float64(Meter)))
Kilometers(f)  == ToLength(FMul(f, Float64(Kilometer)))
Inches(f)      == ToLength(FMul(f, Float64(Inch)))
Feet(f)        == ToLength(FMul(f, Float64(Foot)))

(***************************************************************************)
(* String, in both variants.  The result is [num, suffix, text]: the       *)
(* number written (its digits before and after the point), the unit        *)
(* suffix, and the string returned.                                        *)
(***************************************************************************)
formatFloat(f) == FormatFloat(f)

Sprintf(num, suffix) == [num |-> num, suffix |-> suffix, text |-> Text(num) \o suffix]

\* %d of an unsigned integer
Integer(n) == [int |-> IF n = <<>> THEN <<0>> ELSE Digits(n), frac |-> <<>>]

\* src/lengths.go
Length_String(l) ==
  IF Lt(l, Nanometer) THEN Sprintf(Integer(<<>>), "")
  ELSE IF Lt(l, Micrometer) THEN Sprintf(Integer(Quo(l, Nanometer)), "nm")
  ELSE IF Lt(l, Millimeter) THEN Sprintf(formatFloat(Length_Micrometers(l)), "μm")
  ELSE IF Lt(l, Centimeter) THEN Sprintf(formatFloat(Length_Millimeters(l)), "mm")
  ELSE IF Lt(l, Meter) THEN Sprintf(formatFloat(Length_Centimeters(l)), "cm")
  ELSE IF Lt(l, Kilometer) THEN Sprintf(formatFloat(Length_Meters(l)), "m")
  ELSE Sprintf(formatFloat(Length_Kilometers(l)), "km")

\* the variant without the Kilometer unit, with the length of exactly one
\* meter left to the centimeter branch
String_NoKm_MeterInCentimeters(l) ==
  IF Lt(l, Nanometer) THEN Sprintf(Integer(<<>>), "nm")
  ELSE IF Lt(l, Micrometer) THEN Sprintf(Integer(Quo(l, Nanometer)), "nm")
  ELSE IF Lt(l, Millimeter) THEN Sprintf(formatFloat(Length_Micrometers(l)), "μm")
  ELSE IF Lt(l, Centimeter) THEN Sprintf(formatFloat(Length_Millimeters(l)), "mm")
  ELSE IF Le(l, Meter) THEN Sprintf(formatFloat(Length_Centimeters(l)), "cm")
  ELSE Sprintf(formatFloat(Length_Meters(l)), "m")

\* the variant without the Kilometer unit
Length_String_NoKm(l) ==
  IF Lt(l, Nanometer) THEN Sprintf(Integer(<<>>), "nm")
  ELSE IF Lt(l, Micrometer) THEN Sprintf(Integer(Quo(l, Nanometer)), "nm")
  ELSE IF Lt(l, Millimeter) THEN Sprintf(formatFloat(Length_Micrometers(l)), "μm")
  ELSE IF Lt(l, Centimeter) THEN Sprintf(formatFloat(Length_Millimeters(l)), "mm")
  ELSE IF Lt(l, Meter) THEN Sprintf(formatFloat(Length_Centimeters(l)), "cm")
  ELSE Sprintf(formatFloat(Length_Meters(l)), "m")

(***************************************************************************)
(* The inputs.                                                             *)
(***************************************************************************)
\* the lengths 1118 * 10^i, i in 0..MaxPow, are among the inputs
MaxPow == 16
\* the counts 0..MaxCount are multiplied by the units
MaxCount == 3
\* the unit counts 10^x, x in -MaxNegExp..MaxPosExp, are given to the constructors
MaxNegExp == 9
MaxPosExp == 3

\* the lengths of TestString and TestFeetAndInches
TestLengths ==
  { Dec(<<0>>), Dec(<<1>>), Dec(<<12>>), Dec(<<123>>), Dec(<<1234>>), Dec(<<1, 2345>>),
    Dec(<<12, 3456>>), Dec(<<123, 4567>>), Dec(<<7654, 3210>>), Dec(<<7, 6543, 2100>>),
    Dec(<<76, 5432, 1000>>), Dec(<<765, 4321, 0000>>), Dec(<<7654, 3210, 0000>>),
    Dec(<<7, 6543, 2100, 0000>>), Dec(<<76, 5432, 1000, 0000>>),
    Dec(<<765, 4321, 0000, 0000>>), Dec(<<7654, 3210, 0000, 0000>>),
    Mul(Dec(<<254>>), Micrometer), Mul(Dec(<<178>>), Centimeter) }

\* one nanometer less than each unit, the unit, and one nanometer more
UnitEdges ==
  UNION { {Sub(Unit(u), <<1>>), Unit(u), Add(Unit(u), <<1>>)} : u \in UnitNames \ {"Nanometer"} }

OtherLengths ==
  { Wrap64(Mul(Dec(<<1118>>), Pow10(i))) : i \in 0..MaxPow }
    \cup { Mul(Dec(<<10>>), Meter), Pow2(53), Add(Mul(Pow2(53), Micrometer), Dec(<<999>>)),
           Add(Pow10(18), <<1>>), Pow2(63), MaxUint64 }

LengthInputs == TestLengths \cup UnitEdges \cup OtherLengths

\* the unit counts of TestFromMetrics, TestFromInches and TestFromFeet, as the
\* float64 constants the compiler makes of the literals
\* [lit, f]: the literal and the float64 it denotes
TestFloats ==
  { [lit |-> "1e-" \o ToString(x), f |-> RatioFloat(<<1>>, Pow10(x))] : x \in 1..MaxNegExp }
    \cup { [lit |-> "1e" \o ToString(x), f |-> Float64(Pow10(x))] : x \in 0..MaxPosExp }

OtherFloats ==
  { [lit |-> "0", f |-> FZero],
    [lit |-> "0.3", f |-> RatioFloat(Dec(<<3>>), Dec(<<10>>))],
    [lit |-> "1.14", f |-> RatioFloat(Dec(<<114>>), Dec(<<100>>))],
    [lit |-> "2.3", f |-> RatioFloat(Dec(<<23>>), Dec(<<10>>))],
    [lit |-> "178", f |-> Float64(Dec(<<178>>))],
    [lit |-> "12345678.9", f |-> RatioFloat(Dec(<<1, 2345, 6789>>), Dec(<<10>>))],
    [lit |-> "1e8", f |-> Float64(Pow10(8))] }

NoFloat == [lit |-> "", f |-> FZero]

FloatInputs == TestFloats \cup OtherFloats

CountInputs ==
  { Big(n) : n \in 0..MaxCount } \cup { Dec(<<10>>), Dec(<<1844, 6744>>), Dec(<<1844, 6745>>) }

(***************************************************************************)
(* The state: a Length is made (a literal, a constructor applied to a      *)
(* float64 argument, or a count times a unit), then one operation is       *)
(* called on it.                                                           *)
(***************************************************************************)
InDecimal(n) == IF n = <<>> THEN "0" ELSE DigitString(Digits(n))

VARIABLES
  origin,   \* "float", "count": the argument waits; else how length was made
  arg,      \* the float64 argument of the constructor: [lit, f]
  count,    \* the count multiplied by a unit
  unit,     \* the name of that unit
  length,   \* the Length
  nm,       \* the Length in decimal, to be read
  op,       \* the operation called on length, "none" before
  ret       \* what it returned

vars == <<origin, arg, count, unit, length, nm, op, ret>>

Init ==
  /\ op = "none"
  /\ ret = <<>>
  /\ unit = ""
  /\ \/ origin = "literal" /\ length \in LengthInputs /\ arg = NoFloat /\ count = <<>>
     \/ origin = "float" /\ arg \in FloatInputs /\ length = <<>> /\ count = <<>>
     \/ origin = "count" /\ count \in CountInputs /\ length = <<>> /\ arg = NoFloat
  /\ nm = InDecimal(length)

Made(name, values) ==
  /\ origin = "float"
  /\ \E v \in values : length' = v
  /\ nm' = InDecimal(length')
  /\ origin' = name
  /\ UNCHANGED <<arg, count, unit, op, ret>>

MakeMillimeters == Made("Millimeters", Millimeters(arg.f))
MakeCentimeters == Made("Centimeters", Centimeters(arg.f))
MakeMeters      == Made("Meters", Meters(arg.f))
MakeKilometers  == Made("Kilometers", Kilometers(arg.f))
MakeInches      == Made("Inches", Inches(arg.f))
MakeFeet        == Made("Feet", Feet(arg.f))

MakeTimes ==
  /\ origin = "count"
  /\ \E u \in UnitNames : unit' = u /\ length' = Times(count, Unit(u))
  /\ nm' = InDecimal(length')
  /\ origin' = "Times"
  /\ UNCHANGED <<arg, count, op, ret>>

\* a float64 returned, with its shortest decimal, to be read
Shown(x) == [f |-> x, text |-> Text(FormatFloat(x))]

Call(name, value) ==
  /\ origin \notin {"float", "count"}
  /\ op = "none"
  /\ op' = name
  /\ ret' = value
  /\ UNCHANGED <<origin, arg, count, unit, length, nm>>

CallMicrometers   == Call("Micrometers", Shown(Length_Micrometers(length)))
CallMillimeters   == Call("Millimeters", Shown(Length_Millimeters(length)))
CallCentimeters   == Call("Centimeters", Shown(Length_Centimeters(length)))
CallMeters        == Call("Meters", Shown(Length_Meters(length)))
CallKilometers    == Call("Kilometers", Shown(Length_Kilometers(length)))
CallInches        == Call("Inches", Shown(Length_Inches(length)))
CallFeetAndInches ==
  LET r == Length_FeetAndInches(length) IN Call("FeetAndInches", <<Shown(r[1]), Shown(r[2])>>)
CallString        == Call("String", Length_String(length))
CallStringNoKm    == Call("StringNoKm", Length_String_NoKm(length))

\* l / unit and l % unit
CallQuoRem ==
  \E u \in UnitNames :
    Call("QuoRem", [unit |-> u, quo |-> Quo(length, Unit(u)), rem |-> Rem(length, Unit(u))])

Next ==
  \/ MakeMillimeters \/ MakeCentimeters \/ MakeMeters \/ MakeKilometers
  \/ MakeInches \/ MakeFeet \/ MakeTimes
  \/ CallMicrometers \/ CallMillimeters \/ CallCentimeters \/ CallMeters
  \/ CallKilometers \/ CallInches \/ CallFeetAndInches
  \/ CallString \/ CallStringNoKm \/ CallQuoRem

Spec == Init /\ [][Next]_vars

(***************************************************************************)
(* Exact arithmetic for the properties: a dyadic number [n, s] is n / 2^s. *)
(***************************************************************************)
DyInt(a) == [n |-> a, s |-> 0]
DyFloat(x) == IF x.e >= 0 THEN [n |-> ShiftL(x.m, x.e), s |-> 0] ELSE [n |-> x.m, s |-> 0 - x.e]
DyMul(d, a) == [n |-> Mul(d.n, a), s |-> d.s]
DyAdd(c, d) == [n |-> Add(ShiftL(c.n, d.s), ShiftL(d.n, c.s)), s |-> c.s + d.s]
\* d / 2^k
DyHalve(d, k) == [n |-> d.n, s |-> d.s + k]
DyCmp(c, d) == Cmp(ShiftL(c.n, d.s), ShiftL(d.n, c.s))
DyLt(c, d) == DyCmp(c, d) < 0
DyLe(c, d) == DyCmp(c, d) <= 0
DyFloor(d) == ShiftR(d.n, d.s)
\* |c - d| <= t, and |c - d| < t
DyWithin(c, d, t) == DyLe(c, DyAdd(d, t)) /\ DyLe(d, DyAdd(c, t))
DyStrictlyWithin(c, d, t) == DyLt(c, DyAdd(d, t)) /\ DyLt(d, DyAdd(c, t))
\* the integer nearest to d (halves go up)
DyRound(d) == DyFloor(DyAdd(d, [n |-> <<1>>, s |-> 1]))

One == <<1>>

Accessors ==
  {"Micrometers", "Millimeters", "Centimeters", "Meters", "Kilometers", "Inches"}

Constructors ==
  {"Millimeters", "Centimeters", "Meters", "Kilometers", "Inches", "Feet"}

\* the unit an accessor or a constructor is about
UnitOf(name) ==
  CASE name = "Micrometers" -> Micrometer
    [] name = "Millimeters" -> Millimeter
    [] name = "Centimeters" -> Centimeter
    [] name = "Meters"      -> Meter
    [] name = "Kilometers"  -> Kilometer
    [] name = "Inches"      -> Inch
    [] name = "Feet"        -> Foot

\* the unit of a suffix of String
UnitOfSuffix(suffix) ==
  CASE suffix = "nm" -> Nanometer
    [] suffix = "μm" -> Micrometer
    [] suffix = "mm" -> Millimeter
    [] suffix = "cm" -> Centimeter
    [] suffix = "m"  -> Meter
    [] suffix = "km" -> Kilometer

Called(name) == op = name
Strings == {"String", "StringNoKm"}

RECURSIVE DropZeros(_)
DropZeros(ds) ==
  IF ds = <<>> THEN <<>>
  ELSE IF ds[Len(ds)] = 0 THEN DropZeros(SubSeq(ds, 1, Len(ds) - 1)) ELSE ds

\* the decimal expansion of l / k for a unit k = 10^n: the whole units, and after
\* the point the remainder in n digits without its trailing zeros
ExactDecimal(l, k) ==
  LET qr == DivMod(l, k)
      n  == Len(Digits(k)) - 1
  IN  [int  |-> IF qr.q = <<>> THEN <<0>> ELSE Digits(qr.q),
       frac |-> DropZeros(PadLeft(Digits(qr.r), n))]

RECURSIVE FromDigits(_, _)
FromDigits(ds, acc) ==
  IF ds = <<>> THEN acc ELSE FromDigits(Tail(ds), MulSmallC(acc, 10, ds[1]))

\* the number written num = [int, frac] is Written(num) / 10^Len(num.frac)
Written(num) == FromDigits(num.int \o num.frac, <<>>)

\* the number written is l / k to within a relative 2^-50
WrittenNear(num, l, k) ==
  DyWithin(DyInt(Mul(Written(num), k)), DyInt(Mul(l, Pow10(Len(num.frac)))),
           DyHalve(DyInt(Mul(l, Pow10(Len(num.frac)))), 50))

(***************************************************************************)
(* C1: String() of the zero Length returns exactly "0nm".                  *)
(* It does in the variant without the Kilometer unit; lengths.go returns   *)
(* "0", against TestString.                                                *)
(***************************************************************************)
C1_ZeroIsZeroNm ==
  (op \in Strings /\ length = <<>>) => ret.text = "0nm"

\* what holds: the variant without Kilometer returns "0nm", lengths.go "0"
C1_ZeroByVariant ==
  /\ (Called("StringNoKm") /\ length = <<>>) => ret.text = "0nm"
  /\ (Called("String") /\ length = <<>>) => ret.text = "0"

(***************************************************************************)
(* C2: String(l) of lengths.go selects the unit by the thresholds: "nm"    *)
(* below 1,000 nm, "μm" below 1,000,000, "mm" below 10,000,000, "cm" below *)
(* 1,000,000,000, "m" below 1,000,000,000,000, "km" from there on; and for *)
(* every l >= 1 the number displayed is at least 1.                        *)
(***************************************************************************)
SuffixByThreshold(l) ==
  IF Lt(l, Dec(<<1000>>)) THEN "nm"
  ELSE IF Lt(l, Dec(<<100, 0000>>)) THEN "μm"
  ELSE IF Lt(l, Dec(<<1000, 0000>>)) THEN "mm"
  ELSE IF Lt(l, Dec(<<10, 0000, 0000>>)) THEN "cm"
  ELSE IF Lt(l, Dec(<<1, 0000, 0000, 0000>>)) THEN "m"
  ELSE "km"

C2_Thresholds ==
  Called("String") =>
    /\ ret.suffix = SuffixByThreshold(length)
    /\ length # <<>> => ret.num.int # <<0>>

\* what holds: the thresholds decide the suffix of every length but zero
C2_ThresholdsButZero ==
  (Called("String") /\ length # <<>>) =>
    /\ ret.suffix = SuffixByThreshold(length)
    /\ ret.num.int # <<0>>
    /\ WrittenNear(ret.num, length, UnitOfSuffix(ret.suffix))

(***************************************************************************)
(* C3: for every l >= 1 Meter, lengths of 1 kilometer or more included,    *)
(* String(l) is l in meters followed by "m", as TestString asserts.        *)
(* It is in the variant without the Kilometer unit; lengths.go returns     *)
(* "7.654321km" where TestString expects "7654.321m".                      *)
(***************************************************************************)
C3_AlwaysMeters ==
  (op \in Strings /\ Le(Meter, length)) =>
    /\ ret.suffix = "m"
    /\ WrittenNear(ret.num, length, Meter)

\* what holds: l in meters followed by "m" for every l >= 1 Meter in the
\* variant without the Kilometer unit, and in lengths.go for l < 1 Kilometer;
\* from 1 Kilometer on lengths.go returns l in kilometers followed by "km",
\* against TestString
C3_MetersBelowKilometer ==
  /\ (op \in Strings /\ Le(Meter, length)) =>
       IF Called("StringNoKm") \/ Lt(length, Kilometer)
       THEN /\ ret.suffix = "m"
            /\ WrittenNear(ret.num, length, Meter)
            /\ ret.text = Text(ret.num) \o "m"
       ELSE /\ ret.suffix = "km"
            /\ WrittenNear(ret.num, length, Kilometer)
            /\ ret.text = Text(ret.num) \o "km"
  /\ (Called("StringNoKm") /\ length = Dec(<<7, 6543, 2100, 0000>>)) => ret.text = "7654.321m"
  /\ (Called("StringNoKm") /\ length = Dec(<<765, 4321, 0000, 0000>>)) => ret.text = "765432.1m"
  /\ (Called("StringNoKm") /\ length = Dec(<<7654, 3210, 0000, 0000>>)) => ret.text = "7654321m"
  /\ (Called("String") /\ length = Dec(<<7, 6543, 2100, 0000>>)) => ret.text = "7.654321km"
  /\ (op \in Strings /\ length = Dec(<<76, 5432, 1000>>)) => ret.text = "7.654321m"

(***************************************************************************)
(* C4: for every constructor U and every unit count f >= 0 whose product   *)
(* with the unit is below 2^64, U(f) equals floor(f * K_U): a fraction of  *)
(* a nanometer is always discarded, never rounded up.                      *)
(***************************************************************************)
\* the state after a constructor returned, its product within uint64
Constructed ==
  /\ origin \in Constructors
  /\ op = "none"
  /\ InRange(FMul(arg.f, Float64(UnitOf(origin))))

\* f * K_U, exactly
ExactProduct == DyMul(DyFloat(arg.f), UnitOf(origin))

C4_FloorOfExactProduct ==
  Constructed => length = DyFloor(ExactProduct)

(***************************************************************************)
(* C4, as amended: U(f) is the float64 product f * K_U, that is the exact  *)
(* product rounded to the nearest float64, with its fraction discarded.    *)
(* So U(f) = floor(f * K_U), unless the exact product is closer than a     *)
(* relative 2^-53 to the next integer, which U(f) then is; and from 2^53   *)
(* on U(f) is the exact product to within a relative 2^-53.                *)
(* Inches(1e-7) = 2 and Feet(1e-6) = 304, but Millimeters(1e-6) = 1 and    *)
(* Meters(0.3) = 300000000, where the exact products are a little less.    *)
(***************************************************************************)
C4_FloorOfFloatProduct ==
  /\ Constructed =>
       LET p    == ExactProduct
           fl   == DyFloor(p)
           slop == DyHalve(DyInt(length), 53)
       IN  \/ length = fl
           \/ length = Add(fl, One) /\ DyLe(DyInt(length), DyAdd(p, slop))
           \/ Le(Pow2(53), fl) /\ DyWithin(DyInt(length), p, slop)
  /\ (Constructed /\ origin = "Inches" /\ arg.lit = "1e-7") => nm = "2"
  /\ (Constructed /\ origin = "Feet" /\ arg.lit = "1e-6") => nm = "304"
  /\ (Constructed /\ origin = "Inches" /\ arg.lit = "1e0") => nm = "25400000"
  /\ (Constructed /\ origin = "Millimeters" /\ arg.lit = "1e-6") => nm = "1"
  /\ (Constructed /\ origin = "Meters" /\ arg.lit = "0.3") => nm = "300000000"

C4_Witness ==
  /\ Constructed
  /\ origin = "Millimeters"
  /\ arg.lit = "1e-6"
  /\ nm = "1"
  /\ DyFloor(ExactProduct) = <<>>

(***************************************************************************)
(* C5: FeetAndInches(l) returns feet, integer-valued and equal to          *)
(* l div Foot, and inches, the Inches() of l mod Foot, with                *)
(* 0 <= inches < 12; feet * 304,800,000 + round(inches * 25,400,000) is    *)
(* within one nanometer of l.  178 cm is 5 feet and 10.07874 inches to     *)
(* within 1e-5.                                                            *)
(***************************************************************************)
C5_FeetAndInches ==
  Called("FeetAndInches") =>
    LET feet   == DyFloat(ret[1].f)
        inches == DyFloat(ret[2].f)
        q      == Div(length, Foot)
        back   == Add(Mul(q, Dec(<<3, 0480, 0000>>)),
                      DyRound(DyMul(inches, Dec(<<2540, 0000>>))))
    IN  /\ DyCmp(feet, DyInt(q)) = 0
        /\ ret[2].f = Length_Inches(Mod(length, Foot))
        /\ DyLt(inches, DyInt(Dec(<<12>>)))
        /\ DyWithin(DyInt(back), DyInt(length), DyInt(One))
        /\ nm = "1780000000" =>
             /\ DyCmp(feet, DyInt(Dec(<<5>>))) = 0
             /\ DyStrictlyWithin(DyMul(inches, Pow10(5)), DyInt(Dec(<<100, 7874>>)), DyInt(One))

C5_Witness ==
  /\ Called("FeetAndInches")
  /\ nm = "1780000000"
  /\ DyCmp(DyFloat(ret[1].f), DyInt(Dec(<<5>>))) = 0
  /\ DyLt(DyInt(Dec(<<10>>)), DyFloat(ret[2].f))

C6_NearDecimal ==
  (Called("String") /\ length # <<>>) =>
    /\ WrittenNear(ret.num, length, UnitOfSuffix(ret.suffix))
    /\ ret.num.frac # <<>> => ret.num.frac[Len(ret.num.frac)] # 0
    /\ ret.text = Text(ret.num) \o ret.suffix

RoundTrip ==
  /\ origin \in Constructors \ {"Feet"}
  /\ op = origin
  /\ InRange(FMul(arg.f, Float64(UnitOf(origin))))

C8_RoundTripBelowOneNanometer ==
  RoundTrip =>
    LET k == UnitOf(origin)
        r == DyFloat(ret.f)
        f == DyFloat(arg.f)
    IN  /\ DyStrictlyWithin(DyMul(r, k), DyMul(f, k), DyInt(One))
        /\ DyLe(r, f)

(***************************************************************************)
(* C8, as amended: U(f).ToUnit(U) differs from f by less than              *)
(* 1 / K_U + f * 2^-51 (one nanometer and the float64 roundings of the     *)
(* product, the quotient and the sum), and exceeds f by at most f * 2^-51. *)
(* Inches(2.3).Inches() is more than one nanometer below 2.3, and          *)
(* Millimeters(1.14).Millimeters() is above 1.14.                          *)
(***************************************************************************)
C8_RoundTripWithRounding ==
  RoundTrip =>
    LET k == UnitOf(origin)
        r == DyFloat(ret.f)
        f == DyFloat(arg.f)
    IN  /\ DyStrictlyWithin(DyMul(r, k), DyMul(f, k),
                            DyAdd(DyInt(One), DyHalve(DyMul(f, k), 51)))
        /\ DyLe(r, DyAdd(f, DyHalve(f, 51)))

C8_Witness ==
  /\ RoundTrip
  /\ origin = "Millimeters"
  /\ arg.lit = "1.14"
  /\ nm = "1140000"
  /\ DyLt(DyFloat(arg.f), DyFloat(ret.f))

(***************************************************************************)
(* C9: integer unit arithmetic is exact.  For every unit K and count n     *)
(* with n * K < 2^64, (n * K) / K = n and (n * K) % K = 0; for every       *)
(* Length l, l = (l / K) * K + (l % K) with 0 <= l % K < K;                *)
(* (10 * Meter) / Millimeter = 10000.                                      *)
(***************************************************************************)
C9_IntegerUnits ==
  Called("QuoRem") =>
    LET k == Unit(ret.unit)
    IN  /\ length = Add(Mul(ret.quo, k), ret.rem)
        /\ Lt(ret.rem, k)
        /\ (origin = "Times" /\ unit = ret.unit /\ Lt(Mul(count, k), TwoTo64)) =>
             ret.quo = count /\ ret.rem = <<>>
        /\ (origin = "Times" /\ count = Dec(<<10>>) /\ unit = "Meter"
              /\ ret.unit = "Millimeter") => ret.quo = Dec(<<1, 0000>>)

C9_Witness ==
  /\ Called("QuoRem")
  /\ origin = "Times"
  /\ count = Dec(<<10>>)
  /\ unit = "Meter"
  /\ ret.unit = "Millimeter"
  /\ ret.quo = Dec(<<1, 0000>>)
  /\ ret.rem = <<>>

====
